---- MODULE Spec2Model ----
(***************************************************************************)
(* A movie-review backend: users register and log in, create movies, rate  *)
(* them, comment on them and reply to comments.  The model follows         *)
(* app/crud.py (the generic data-access class CRUDService), app/oauth2.py  *)
(* (token issue / verify and the current-user dependency), app/models.py   *)
(* (tables, NOT NULL / UNIQUE / FOREIGN KEY ... ON DELETE CASCADE) and     *)
(* app/schemas.py (request bodies).  The route functions of app/routers/   *)
(* are not part of the sources; they are modelled from the specification   *)
(* and from the status codes the tests under app/tests expect.             *)
(***************************************************************************)
EXTENDS Integers, Sequences, FiniteSets, TLC

(***************************************************************************)
(* Bounds of the exploration.                                              *)
(***************************************************************************)
\* rows inserted over a run, all tables together
MaxRows == 5
\* rows inserted over a run in which the clock advances
MaxClockRows == 1
\* whole token lifetimes the clock may advance by
MaxPeriods == 1
\* clock ticks per second: datetime has sub-second resolution, a JWT "exp" has not
TicksPerSecond == 3
\* settings.access_token_expire_minutes, read from the environment
ACCESS_TOKEN_EXPIRE_MINUTES == 1

SecondsPerMinute == 60

VARIABLES
    db,      \* the relational store: table name -> set of rows
    seq,     \* the store's id sequences: table name -> next id
    now,     \* the wall clock, in ticks
    issued,  \* the tokens handed out by login
    last,    \* the last request and the response it got
    reqs     \* the requests served step by step, one per worker, with their sessions

vars == <<db, seq, now, issued, last, reqs>>

(***************************************************************************)
(* app/models.py: the five tables.                                         *)
(***************************************************************************)
Models == {"User", "Movie", "Rating", "Comment", "Reply"}

Columns(model) ==
    CASE model = "User"    -> {"id", "email", "password", "created_at"}
      [] model = "Movie"   -> {"id", "title", "genre", "director", "created_at", "user_id"}
      [] model = "Rating"  -> {"id", "rating", "created_at", "movie_id", "user_id"}
      [] model = "Comment" -> {"id", "content", "created_at", "user_id", "movie_id"}
      [] model = "Reply"   -> {"id", "reply", "created_at", "comment_id", "user_id"}

\* ForeignKey(..., ondelete="CASCADE"): <<referencing column, referenced table>>
ForeignKeys(model) ==
    CASE model = "User"    -> {}
      [] model = "Movie"   -> {<<"user_id", "User">>}
      [] model = "Rating"  -> {<<"movie_id", "Movie">>, <<"user_id", "User">>}
      [] model = "Comment" -> {<<"user_id", "User">>, <<"movie_id", "Movie">>}
      [] model = "Reply"   -> {<<"comment_id", "Comment">>, <<"user_id", "User">>}

\* unique=True columns
UniqueColumns(model) == IF model = "User" THEN {"email"} ELSE {}

\* Python's None, as a row: no row of a table has id 0 (ids start at 1)
None == [id |-> 0]
IsNone(obj) == obj = None

Ids(d, model) == {r.id : r \in d[model]}

(***************************************************************************)
(* The store (the database engine behind the SQLAlchemy session).          *)
(***************************************************************************)
\* Keyword construction of a mapped object: model(**kwargs) raises TypeError
\* for a keyword that is no attribute of the mapped class.
ConstructOk(model, kwargs) == DOMAIN kwargs \subseteq Columns(model)

\* The INSERT a commit flushes: the server fills id (sequence) and created_at
\* (server_default now()); every column is NOT NULL, every foreign key must
\* name an existing row, a unique column must not repeat.
InsertRow(s, model, obj, t) ==
    obj @@ ("id" :> s[model]) @@ ("created_at" :> t)

\* an insert with the unique constraint not enforced
InsertOk_no_unique(d, model, row) ==
    /\ DOMAIN row = Columns(model)
    /\ \A fk \in ForeignKeys(model) : row[fk[1]] \in Ids(d, fk[2])

\* an insert with the foreign keys not enforced
InsertOk_no_foreign_key(d, model, row) ==
    /\ DOMAIN row = Columns(model)
    /\ \A c \in UniqueColumns(model) : \A r \in d[model] : r[c] # row[c]

InsertOk(d, model, row) ==
    /\ DOMAIN row = Columns(model)
    /\ \A fk \in ForeignKeys(model) : row[fk[1]] \in Ids(d, fk[2])
    /\ \A c \in UniqueColumns(model) : \A r \in d[model] : r[c] # row[c]

\* DELETE ... WHERE id = ..., with ON DELETE CASCADE followed to a fixed point:
\* rows referencing a removed row are removed too.
Dangling(d, model) ==
    {r \in d[model] : \E fk \in ForeignKeys(model) : r[fk[1]] \notin Ids(d, fk[2])}

\* a cascade that stops at the rows referencing the deleted row itself
Cascade_once(d) == [m \in Models |-> d[m] \ Dangling(d, m)]

RECURSIVE Cascade(_)
Cascade(d) ==
    IF \A m \in Models : Dangling(d, m) = {}
    THEN d
    ELSE Cascade([m \in Models |-> d[m] \ Dangling(d, m)])

DeleteWhereId(d, model, id) ==
    Cascade([d EXCEPT ![model] = {r \in d[model] : r.id # id}])

\* an UPDATE that has lost its WHERE: every row of the table takes the values
UpdateWhereId_every_row(d, model, id, values) ==
    [d EXCEPT ![model] = {values @@ r : r \in d[model]}]

\* UPDATE ... SET values WHERE id = ...
UpdateWhereId(d, model, id, values) ==
    [d EXCEPT ![model] = {IF r.id = id THEN values @@ r ELSE r : r \in d[model]}]

(***************************************************************************)
(* app/schemas.py: request bodies.  A body is a record of JSON fields;     *)
(* validation keeps the declared fields (undeclared ones are ignored) and  *)
(* fails when a declared field is missing.                                 *)
(***************************************************************************)
Fields(schema) ==
    CASE schema = "UserCreate"    -> {"email", "password"}
      [] schema = "MovieCreate"   -> {"title", "genre", "director"}
      [] schema = "MovieUpdate"   -> {"title", "genre", "director"}
      [] schema = "RatingCreate"  -> {"movie_id", "rating"}
      [] schema = "CommentCreate" -> {"movie_id", "content"}
      [] schema = "ReplyCreate"   -> {"comment_id", "content"}

ValidBody(schema, body) == Fields(schema) \subseteq DOMAIN body

\* the schema object built from a valid body; model_dump() gives it back
Validate(schema, body) == [f \in Fields(schema) |-> body[f]]

model_dump(data_obj) == data_obj

(***************************************************************************)
(* app/crud.py: CRUDService.  Every operation takes the store (d, s) and   *)
(* returns the store after it, the exception it raised ("" for none) and   *)
(* its return value.                                                       *)
(***************************************************************************)
Raise(e, d, s) == [exc |-> e, db |-> d, seq |-> s, out |-> None]

Return(d, s, out) == [exc |-> "", db |-> d, seq |-> s, out |-> out]

\* get with the filter on id lost: the first row of the table
get_first(d, id, model) ==
    IF d[model] # {}
    THEN CHOOSE r \in d[model] : \A q \in d[model] : r.id <= q.id
    ELSE None

get(d, id, model) ==
    IF \E r \in d[model] : r.id = id
    THEN CHOOSE r \in d[model] : r.id = id
    ELSE None

\* self.db.add(model_obj); self.db.commit(); self.db.refresh(model_obj)
AddCommitRefresh(d, s, model, kwargs, t) ==
    LET row == InsertRow(s, model, kwargs, t)
        d2  == [d EXCEPT ![model] = @ \cup {row}]
    IN  IF ~ConstructOk(model, kwargs) THEN Raise("TypeError", d, s)
        ELSE IF ~InsertOk(d, model, row) THEN Raise("IntegrityError", d, s)
        ELSE Return(d2, [s EXCEPT ![model] = @ + 1], get(d2, row.id, model))

\* create without its commit: the object is returned, the store is as before
create_uncommitted(d, s, data_obj, model, current_user, t) ==
    IF IsNone(current_user) THEN Raise("AttributeError", d, s)
    ELSE LET r == AddCommitRefresh(d, s, model,
                      ("user_id" :> current_user.id) @@ model_dump(data_obj), t)
         IN  IF r.exc # "" THEN r ELSE Return(d, s, r.out)

\* model(user_id=current_user.id, **data_obj.model_dump()): AttributeError when
\* current_user is None, TypeError when the dump repeats the keyword user_id
create(d, s, data_obj, model, current_user, t) ==
    IF IsNone(current_user) THEN Raise("AttributeError", d, s)
    ELSE IF "user_id" \in DOMAIN model_dump(data_obj) THEN Raise("TypeError", d, s)
    ELSE AddCommitRefresh(d, s, model,
                          ("user_id" :> current_user.id) @@ model_dump(data_obj), t)

create_user(d, s, data_obj, model, hashed_password, t) ==
    AddCommitRefresh(d, s, model,
                     model_dump([data_obj EXCEPT !.password = hashed_password]), t)

update(d, s, id, data_obj, model) ==
    Return(UpdateWhereId(d, model, id, model_dump(data_obj)), s, None)

delete(d, s, id, model) ==
    Return(DeleteWhereId(d, model, id), s, None)

get_user_by_email(d, email, model) ==
    IF \E r \in d[model] : r.email = email
    THEN CHOOSE r \in d[model] : r.email = email
    ELSE None

\* get_existing_rating matching the user column against the movie's id
get_existing_rating_wrong_user(d, data_obj, model, current_user) ==
    LET found == {r \in d[model] : /\ r.movie_id = data_obj.movie_id
                                   /\ r.user_id = data_obj.movie_id}
    IN  IF found # {} THEN CHOOSE r \in found : TRUE ELSE None

get_existing_rating(d, data_obj, model, current_user) ==
    LET found == {r \in d[model] : /\ r.movie_id = data_obj.movie_id
                                   /\ r.user_id = current_user.id}
    IN  IF found # {} THEN CHOOSE r \in found : TRUE ELSE None

\* rate_movie stamping the movie's id where the user's id belongs
rate_movie_wrong_owner(d, s, data_obj, model, current_user, t) ==
    IF IsNone(current_user) THEN Raise("AttributeError", d, s)
    ELSE AddCommitRefresh(d, s, model,
                          ("user_id" :> data_obj.movie_id) @@ model_dump(data_obj), t)

\* a rating that looks again for an existing rating as it inserts
rate_movie_guarded(d, s, data_obj, model, current_user, t) ==
    IF ~IsNone(get_existing_rating(d, data_obj, model, current_user))
    THEN Raise("IntegrityError", d, s)
    ELSE AddCommitRefresh(d, s, model,
                          ("user_id" :> current_user.id) @@ model_dump(data_obj), t)

rate_movie(d, s, data_obj, model, current_user, t) ==
    IF IsNone(current_user) THEN Raise("AttributeError", d, s)
    ELSE IF "user_id" \in DOMAIN model_dump(data_obj) THEN Raise("TypeError", d, s)
    ELSE AddCommitRefresh(d, s, model,
                          ("user_id" :> current_user.id) @@ model_dump(data_obj), t)

comment_movie(d, s, data_obj, model, current_user, t) ==
    IF IsNone(current_user) THEN Raise("AttributeError", d, s)
    ELSE IF "user_id" \in DOMAIN model_dump(data_obj) THEN Raise("TypeError", d, s)
    ELSE AddCommitRefresh(d, s, model,
                          ("user_id" :> current_user.id) @@ model_dump(data_obj), t)

reply_comment(d, s, data_obj, model, current_user, t) ==
    IF IsNone(current_user) THEN Raise("AttributeError", d, s)
    ELSE IF "user_id" \in DOMAIN model_dump(data_obj) THEN Raise("TypeError", d, s)
    ELSE AddCommitRefresh(d, s, model,
                          ("user_id" :> current_user.id) @@ model_dump(data_obj), t)

(***************************************************************************)
(* app/utils.py: password hashing, an opaque one-way function.             *)
(***************************************************************************)
hash_password(password) == <<"bcrypt", password>>

verify_hashed_password(plain_password, hashed_password) ==
    hashed_password = <<"bcrypt", plain_password>>

(***************************************************************************)
(* app/oauth2.py: tokens.  A token is its payload (user_id, exp) and the   *)
(* key it was signed with; "garbage" is a string that is no JWT and        *)
(* "absent" a request without an Authorization header.  A payload without  *)
(* a user_id claim carries user_id 0.                                      *)
(***************************************************************************)
SECRET_KEY == "secret"

NoToken == [kind |-> "absent", user_id |-> 0, exp |-> 0, key |-> ""]

Garbage == [kind |-> "garbage", user_id |-> 0, exp |-> 0, key |-> ""]

\* timedelta(minutes=ACCESS_TOKEN_EXPIRE_MINUTES), in ticks
Lifetime == ACCESS_TOKEN_EXPIRE_MINUTES * SecondsPerMinute * TicksPerSecond

\* timegm(x.utctimetuple()): whole seconds, the fraction dropped
Seconds(t) == t \div TicksPerSecond

\* jwt.encode turns a datetime "exp" into whole seconds
create_access_token(data, t) ==
    [kind |-> "jwt", user_id |-> data.user_id, exp |-> Seconds(t + Lifetime),
     key |-> SECRET_KEY]

\* jwt.decode with the expiry left unchecked
DecodeOk_no_expiry(token, t) ==
    /\ token.kind = "jwt"
    /\ token.key = SECRET_KEY

\* jwt.decode with the signature left unchecked
DecodeOk_no_signature(token, t) ==
    /\ token.kind = "jwt"
    /\ ~(token.exp < Seconds(t))

\* jwt.decode: JWTError for a string that is no JWT, a signature that does not
\* verify, or exp < now (both in whole seconds)
DecodeOk(token, t) ==
    /\ token.kind = "jwt"
    /\ token.key = SECRET_KEY
    /\ ~(token.exp < Seconds(t))

\* verify_access_token letting the expiry error of jwt.decode through as it is
verify_access_token_leaky(token, t) ==
    IF token.kind = "jwt" /\ token.key = SECRET_KEY /\ token.exp < Seconds(t)
    THEN [exc |-> "ExpiredSignatureError", id |-> ""]
    ELSE IF ~DecodeOk(token, t) THEN [exc |-> "credentials_exception", id |-> ""]
    ELSE IF token.user_id = 0 THEN [exc |-> "credentials_exception", id |-> ""]
    ELSE [exc |-> "", id |-> ToString(token.user_id)]

\* verify_access_token turning down the token of a user the store has not
verify_access_token_revoking(token, t) ==
    IF ~DecodeOk(token, t) THEN [exc |-> "credentials_exception", id |-> ""]
    ELSE IF token.user_id \notin Ids(db, "User")
    THEN [exc |-> "credentials_exception", id |-> ""]
    ELSE [exc |-> "", id |-> ToString(token.user_id)]

verify_access_token(token, t) ==
    IF ~DecodeOk(token, t) THEN [exc |-> "credentials_exception", id |-> ""]
    ELSE IF token.user_id = 0 THEN [exc |-> "credentials_exception", id |-> ""]
    ELSE [exc |-> "", id |-> ToString(token.user_id)]

\* Depends(oauth2_scheme) answers 401 when the header is absent; the user is
\* looked up by the id in the token, first() giving None when there is none
get_current_user(token, d, t) ==
    LET token_data == verify_access_token(token, t)
        found == {u \in d["User"] : ToString(u.id) = token_data.id}
    IN  IF token.kind = "absent"
        THEN [exc |-> "401", detail |-> "Not authenticated", user |-> None]
        ELSE IF token_data.exc # ""
        THEN [exc |-> "401", detail |-> "Could not validate credentials", user |-> None]
        ELSE [exc |-> "", detail |-> "",
              user |-> IF found # {} THEN CHOOSE u \in found : TRUE ELSE None]

(***************************************************************************)
(* The route functions (app/routers/).  Each takes the store, the request  *)
(* and the clock and gives the response status, the row or the error       *)
(* detail it returns and the store after it.  FastAPI resolves the         *)
(* get_current_user dependency first, answers 422 for a body the schema    *)
(* rejects and 500 for an exception nothing handles.                       *)
(***************************************************************************)
Resp(status, d, s, out) == [status |-> status, db |-> d, seq |-> s, out |-> out]

Error(status, detail, d, s) ==
    [status |-> status, db |-> d, seq |-> s, out |-> [detail |-> detail]]

Unauthorized(auth, d, s) == Error(401, auth.detail, d, s)

Unprocessable(d, s) == Error(422, "Unprocessable Entity", d, s)

ServerError(d, s) == Error(500, "Internal Server Error", d, s)

NotFound(what, id, d, s) ==
    Error(404, what \o " with id:" \o ToString(id) \o " not found", d, s)

\* the outcome of a CRUDService call that ends the request
Finish(ok_status, r) ==
    IF r.exc # "" THEN ServerError(r.db, r.seq)
    ELSE Resp(ok_status, r.db, r.seq, r.out)

\* an ownership check that lets everyone through
requireOwnership_anyone(resource, current_user) == TRUE

\* requireOwnership: the resource's user_id against the current user's id
requireOwnership(resource, current_user) == resource.user_id = current_user.id

\* POST /users
create_user_route(d, s, body, t) ==
    IF ~ValidBody("UserCreate", body) THEN Unprocessable(d, s)
    ELSE IF ~IsNone(get_user_by_email(d, body.email, "User"))
    THEN Error(400, "ConstraintViolation", d, s)
    ELSE Finish(201, create_user(d, s, Validate("UserCreate", body), "User",
                                 hash_password(body.password), t))

\* POST /login: the token is returned in place of a row
login_route(d, s, body, t) ==
    LET user == get_user_by_email(d, body.email, "User")
    IN  IF IsNone(user) THEN Error(401, "Unauthorized", d, s)
        ELSE IF ~verify_hashed_password(body.password, user.password)
        THEN Error(401, "Unauthorized", d, s)
        ELSE Resp(200, d, s, create_access_token([user_id |-> user.id], t))

\* POST /movies
create_movie_route(d, s, token, body, t) ==
    LET auth == get_current_user(token, d, t)
    IN  IF auth.exc # "" THEN Unauthorized(auth, d, s)
        ELSE IF ~ValidBody("MovieCreate", body) THEN Unprocessable(d, s)
        ELSE Finish(201, create(d, s, Validate("MovieCreate", body), "Movie",
                                auth.user, t))

\* PUT /movies/{id}: current_user.id of None is an AttributeError
update_movie_route(d, s, token, id, body, t) ==
    LET auth  == get_current_user(token, d, t)
        movie == get(d, id, "Movie")
    IN  IF auth.exc # "" THEN Unauthorized(auth, d, s)
        ELSE IF IsNone(movie) THEN NotFound("Movie", id, d, s)
        ELSE IF IsNone(auth.user) THEN ServerError(d, s)
        ELSE IF ~requireOwnership(movie, auth.user) THEN Error(403, "Forbidden", d, s)
        ELSE IF ~ValidBody("MovieUpdate", body) THEN Unprocessable(d, s)
        ELSE LET r == update(d, s, id, Validate("MovieUpdate", body), "Movie")
             IN  Resp(200, r.db, r.seq, get(r.db, id, "Movie"))

\* DELETE /movies/{id}
delete_movie_route(d, s, token, id, t) ==
    LET auth  == get_current_user(token, d, t)
        movie == get(d, id, "Movie")
    IN  IF auth.exc # "" THEN Unauthorized(auth, d, s)
        ELSE IF IsNone(movie) THEN NotFound("Movie", id, d, s)
        ELSE IF IsNone(auth.user) THEN ServerError(d, s)
        ELSE IF ~requireOwnership(movie, auth.user) THEN Error(403, "Forbidden", d, s)
        ELSE Finish(204, delete(d, s, id, "Movie"))

\* POST /ratings
rate_movie_route(d, s, token, body, t) ==
    LET auth == get_current_user(token, d, t)
    IN  IF auth.exc # "" THEN Unauthorized(auth, d, s)
        ELSE IF ~ValidBody("RatingCreate", body) THEN Unprocessable(d, s)
        ELSE IF IsNone(get(d, body.movie_id, "Movie"))
        THEN NotFound("Movie", body.movie_id, d, s)
        ELSE IF IsNone(auth.user) THEN ServerError(d, s)
        ELSE IF ~IsNone(get_existing_rating(d, Validate("RatingCreate", body),
                                            "Rating", auth.user))
        THEN Error(400, "User has already rated this movie", d, s)
        ELSE Finish(201, rate_movie(d, s, Validate("RatingCreate", body), "Rating",
                                    auth.user, t))

\* POST /comments
comment_movie_route(d, s, token, body, t) ==
    LET auth == get_current_user(token, d, t)
    IN  IF auth.exc # "" THEN Unauthorized(auth, d, s)
        ELSE IF ~ValidBody("CommentCreate", body) THEN Unprocessable(d, s)
        ELSE IF IsNone(get(d, body.movie_id, "Movie"))
        THEN NotFound("Movie", body.movie_id, d, s)
        ELSE Finish(201, comment_movie(d, s, Validate("CommentCreate", body),
                                       "Comment", auth.user, t))

\* POST /replies
reply_comment_route(d, s, token, body, t) ==
    LET auth == get_current_user(token, d, t)
    IN  IF auth.exc # "" THEN Unauthorized(auth, d, s)
        ELSE IF ~ValidBody("ReplyCreate", body) THEN Unprocessable(d, s)
        ELSE IF IsNone(get(d, body.comment_id, "Comment"))
        THEN NotFound("Comment", body.comment_id, d, s)
        ELSE Finish(201, reply_comment(d, s, Validate("ReplyCreate", body),
                                       "Reply", auth.user, t))

\* GET of the current user alone: the get_current_user dependency by itself
current_user_route(d, s, token, t) ==
    LET auth == get_current_user(token, d, t)
    IN  IF auth.exc # "" THEN Unauthorized(auth, d, s)
        ELSE Resp(200, d, s, auth.user)

(***************************************************************************)
(* Requests: the inputs the actions draw from.                             *)
(***************************************************************************)
Emails == {"a@x.io", "b@x.io"}

UserBodies ==
    {[email |-> e, password |-> "pw"] : e \in Emails} \cup {[email |-> "a@x.io"]}

LoginBodies == {[email |-> e, password |-> p] : e \in Emails, p \in {"pw", "bad"}}

MovieBodies ==
    { [title |-> "t1", genre |-> "g1", director |-> "d1"],
      [title |-> "t2", genre |-> "g2", director |-> "d1"],
      [title |-> "t2", genre |-> "g2", director |-> "d1", user_id |-> 1],
      [title |-> "t1"] }

MovieUpdates ==
    { [title |-> "t2", genre |-> "g2", director |-> "d1"],
      [title |-> "t1"] }

\* ids a request may name in a table: those of its rows and one that has none
Probe(d, s, model) == Ids(d, model) \cup {s[model]}

RatingBodies(d, s) ==
    {[movie_id |-> m, rating |-> 3] : m \in Probe(d, s, "Movie")}
        \cup {[movie_id |-> 1, rating |-> 3, user_id |-> 1], [rating |-> 3]}

CommentBodies(d, s) ==
    {[movie_id |-> m, content |-> "c"] : m \in Probe(d, s, "Movie")}
        \cup {[movie_id |-> 1, content |-> "c", user_id |-> 1], [content |-> "c"]}

ReplyBodies(d, s) ==
    {[comment_id |-> c, content |-> "r"] : c \in Probe(d, s, "Comment")}
        \cup {[content |-> "r"]}

\* a data object carrying the Reply table's own columns, for the generic create
ReplyRows(d, s) == {[comment_id |-> c, reply |-> "r"] : c \in Probe(d, s, "Comment")}

\* what a client can put in the Authorization header: a token it was given,
\* nothing, a string that is no JWT, a token for the first user signed with
\* another key, or one whose expiry has passed
Forged(t) ==
    [kind |-> "jwt", user_id |-> 1, exp |-> Seconds(t + Lifetime), key |-> "forged"]

Expired(t) ==
    [kind |-> "jwt", user_id |-> 1, exp |-> Seconds(t) - 1, key |-> SECRET_KEY]

Presentable ==
    {i.tok : i \in issued} \cup {NoToken, Garbage, Forged(now), Expired(now)}

\* a client keeps the token of its last login
Keep(tokens, tok, t) ==
    {i \in tokens : i.tok.user_id # tok.user_id} \cup {[tok |-> tok, at |-> t]}

\* the clock readings explored: up to a second after a whole number of
\* lifetimes, and one reading a lifetime after the last of them
Instants ==
    {p * Lifetime + f : p \in 0..MaxPeriods, f \in 0..TicksPerSecond}
        \cup {(MaxPeriods + 1) * Lifetime}

RowsInserted == seq["User"] + seq["Movie"] + seq["Rating"] + seq["Comment"]
                    + seq["Reply"] - 5

(***************************************************************************)
(* The state machine.  A request is served as a whole (the route function  *)
(* with every CRUDService call it makes, commits included); its response   *)
(* is in flight until it is delivered, and the next request starts then.   *)
(***************************************************************************)
Idle == [op |-> "none", status |-> 0, tok |-> NoToken, id |-> 0,
         body |-> None, out |-> None]

\* the workers that serve requests step by step, interleaved
Workers == {"w1", "w2"}

\* a worker with no request
NoRequest ==
    [pc |-> "idle", status |-> 0, user |-> None, body |-> None,
     session |-> "none", closes |-> 0]

\* a request served as a whole has its session opened and closed within the step
Request(op, tok, id, body, r) ==
    /\ last = Idle
    /\ UNCHANGED reqs
    /\ db' = r.db
    /\ seq' = r.seq
    /\ last' = [op |-> op, status |-> r.status, tok |-> tok, id |-> id,
                body |-> body, out |-> r.out]

Init ==
    /\ db = [m \in Models |-> {}]
    /\ seq = [m \in Models |-> 1]
    /\ now = 0
    /\ issued = {}
    /\ last = Idle
    /\ reqs = [w \in Workers |-> NoRequest]

RegisterUserUpTo(limit) ==
    /\ RowsInserted < limit
    /\ \E body \in UserBodies :
          Request("create_user", NoToken, 0, body, create_user_route(db, seq, body, now))
    /\ UNCHANGED <<now, issued>>

RegisterUser == RegisterUserUpTo(MaxRows)

RegisterUserClocked == RegisterUserUpTo(MaxClockRows)

Login ==
    /\ \E body \in LoginBodies :
          LET r == login_route(db, seq, body, now)
          IN  /\ Request("login", NoToken, 0, body, r)
              /\ issued' = IF r.status = 200 THEN Keep(issued, r.out, now) ELSE issued
    /\ UNCHANGED now

\* the get_current_user dependency on its own: 401, or the user it resolves
Authenticate ==
    /\ \E tok \in Presentable :
          Request("get_current_user", tok, 0, None,
                  current_user_route(db, seq, tok, now))
    /\ UNCHANGED <<now, issued>>

CreateMovie ==
    /\ RowsInserted < MaxRows
    /\ \E tok \in Presentable, body \in MovieBodies :
          Request("create_movie", tok, 0, body,
                  create_movie_route(db, seq, tok, body, now))
    /\ UNCHANGED <<now, issued>>

UpdateMovie ==
    /\ \E tok \in Presentable, id \in Probe(db, seq, "Movie"), body \in MovieUpdates :
          Request("update_movie", tok, id, body,
                  update_movie_route(db, seq, tok, id, body, now))
    /\ UNCHANGED <<now, issued>>

DeleteMovie ==
    /\ \E tok \in Presentable, id \in Probe(db, seq, "Movie") :
          Request("delete_movie", tok, id, None,
                  delete_movie_route(db, seq, tok, id, now))
    /\ UNCHANGED <<now, issued>>

RateMovie ==
    /\ RowsInserted < MaxRows
    /\ \E tok \in Presentable, body \in RatingBodies(db, seq) :
          Request("rate_movie", tok, 0, body,
                  rate_movie_route(db, seq, tok, body, now))
    /\ UNCHANGED <<now, issued>>

CommentMovie ==
    /\ RowsInserted < MaxRows
    /\ \E tok \in Presentable, body \in CommentBodies(db, seq) :
          Request("comment_movie", tok, 0, body,
                  comment_movie_route(db, seq, tok, body, now))
    /\ UNCHANGED <<now, issued>>

ReplyComment ==
    /\ RowsInserted < MaxRows
    /\ \E tok \in Presentable, body \in ReplyBodies(db, seq) :
          Request("reply_comment", tok, 0, body,
                  reply_comment_route(db, seq, tok, body, now))
    /\ UNCHANGED <<now, issued>>

\* CRUDService.create used directly on the Reply table by a current user
CreateReply ==
    /\ RowsInserted < MaxRows
    /\ \E user \in db["User"], data_obj \in ReplyRows(db, seq) :
          Request("create", NoToken, user.id, data_obj,
                  Finish(201, create(db, seq, data_obj, "Reply", user, now)))
    /\ UNCHANGED <<now, issued>>

\* CRUDService.delete used directly on the User table
DeleteUser ==
    /\ \E id \in Probe(db, seq, "User") :
          Request("delete_user", NoToken, id, None,
                  Finish(204, delete(db, seq, id, "User")))
    /\ UNCHANGED <<now, issued>>

Deliver ==
    /\ last # Idle
    /\ last' = Idle
    /\ UNCHANGED <<db, seq, now, issued, reqs>>

Tick ==
    /\ last = Idle
    /\ \E t \in Instants :
          /\ t > now
          /\ now' = t
    /\ UNCHANGED <<db, seq, issued, last, reqs>>

\* the application, the clock standing still
Next ==
    \/ RegisterUser
    \/ Login
    \/ Authenticate
    \/ CreateMovie
    \/ UpdateMovie
    \/ DeleteMovie
    \/ RateMovie
    \/ CommentMovie
    \/ ReplyComment
    \/ CreateReply
    \/ DeleteUser
    \/ Deliver

Spec == Init /\ [][Next]_vars

\* a payload signed with the key that carries no user_id claim
Unclaimed(t) ==
    [kind |-> "jwt", user_id |-> 0, exp |-> Seconds(t + Lifetime), key |-> SECRET_KEY]

\* the strings verify_access_token may be handed
Verifiable == (Presentable \ {NoToken}) \cup {Unclaimed(now)}

\* verify_access_token by itself: the token data it returns, or what it raises
Verify ==
    /\ \E tok \in Verifiable :
          LET v == verify_access_token(tok, now)
          IN  Request("verify_access_token()", tok, 0, None,
                      Resp(IF v.exc = "" THEN 200 ELSE 401, db, seq,
                           IF v.exc = "" THEN [token_id |-> v.id] ELSE [exc |-> v.exc]))
    /\ UNCHANGED <<now, issued>>

\* registration, login and authentication as the clock advances
NextToken ==
    \/ RegisterUserClocked
    \/ Verify
    \/ Login
    \/ Authenticate
    \/ DeleteUser
    \/ Tick
    \/ Deliver

SpecToken == Init /\ [][NextToken]_vars

(***************************************************************************)
(* Properties.                                                             *)
(***************************************************************************)
\* the step that serves a request of one of the kinds ops
Serves(ops) == last = Idle /\ last'.op \in ops

\* tok was handed out by login and its expiry has not passed
Authentic(tok) ==
    /\ \E i \in issued : i.tok = tok
    /\ Seconds(now) <= tok.exp

\* tok is authentic and the user it names is in the store
ActsAs(tok, id) ==
    /\ Authentic(tok)
    /\ tok.user_id = id
    /\ id \in Ids(db, "User")

Succeeded == last.status \in {200, 201, 204}

\* the table each creating request inserts into
Inserts ==
    [create_user |-> "User", create_movie |-> "Movie", rate_movie |-> "Rating",
     comment_movie |-> "Comment", reply_comment |-> "Reply", create |-> "Reply"]

\* C1: when a create of any kind has answered with the created row, a get by
\* the returned id on the store as it then is returns exactly that row (with
\* its generated id and its owner): the insert was committed before returning.
C1_GetAfterCreate ==
    (last.op \in DOMAIN Inserts /\ last.status = 201) =>
        /\ ~IsNone(last.out)
        /\ last.out.id = seq[Inserts[last.op]] - 1
        /\ get(db, last.out.id, Inserts[last.op]) = last.out

C1_Witness ==
    /\ last.op = "create"
    /\ last.status = 201
    /\ last.out.user_id = 2
    /\ get(db, last.out.id, "Reply") = last.out

\* C2: no two Rating rows share (movie_id, user_id), and a rating submitted by
\* a user who has already rated that movie is answered 400 "User has already
\* rated this movie" and leaves the store as it was.
AtMostOneRating ==
    \A r1, r2 \in db["Rating"] :
        (r1.movie_id = r2.movie_id /\ r1.user_id = r2.user_id) => r1 = r2

C2_DuplicateRatingRejected ==
    [][ /\ AtMostOneRating'
        /\ \A r \in db["Rating"] :
              ( /\ Serves({"rate_movie"})
                /\ ValidBody("RatingCreate", last'.body)
                /\ last'.body.movie_id = r.movie_id
                /\ ActsAs(last'.tok, r.user_id) )
              => /\ last'.status = 400
                 /\ last'.out = [detail |-> "User has already rated this movie"]
                 /\ db' = db ]_vars

C2_Witness ==
    /\ last.op = "rate_movie"
    /\ last.status = 400
    /\ \E r \in db["Rating"] :
          r.movie_id = last.body.movie_id /\ r.user_id = last.tok.user_id

\* C3: an update or delete of a movie by an authenticated user who is not its
\* owner is answered 403, whether or not the body is a valid one, and leaves
\* the store (the movie included) as it was.
C3_NotOwnerForbidden ==
    [][ \A m \in db["Movie"], u \in db["User"] :
          ( /\ Serves({"update_movie", "delete_movie"})
            /\ last'.id = m.id
            /\ ActsAs(last'.tok, u.id)
            /\ u.id # m.user_id )
          => /\ last'.status = 403
             /\ db' = db
             /\ m \in db'["Movie"] ]_vars

C3_Witness ==
    /\ last.op = "update_movie"
    /\ last.status = 403
    /\ ~ValidBody("MovieUpdate", last.body)
    /\ \E m \in db["Movie"] : m.id = last.id /\ m.user_id # last.tok.user_id

\* C4: an update or delete of a movie id that has no row never succeeds and
\* leaves the store as it was; the authenticated caller is answered 404.
C4_MissingIdNotFound ==
    [][ ( /\ Serves({"update_movie", "delete_movie"})
          /\ last'.id \notin Ids(db, "Movie") )
        => /\ last'.status \in {401, 404}
           /\ db' = db
           /\ Authentic(last'.tok) =>
                 /\ last'.status = 404
                 /\ last'.out = [detail |-> "Movie with id:" \o ToString(last'.id)
                                                \o " not found"] ]_vars

C4_Witness ==
    /\ last.op = "update_movie"
    /\ last.status = 404
    /\ last.id \notin Ids(db, "Movie")
    /\ ValidBody("MovieUpdate", last.body)
    /\ db["Movie"] # {}

\* the answer of verify_access_token to an issued token at the present time
Verified(i) == verify_access_token(i.tok, now)

\* C5 as claimed: a token issued at time i.at verifies, giving its user id, at
\* every time before i.at + lifetime, and is rejected at every time after it.
C5_VerifyUntilExpiry ==
    \A i \in issued :
        /\ now < i.at + Lifetime =>
              Verified(i) = [exc |-> "", id |-> ToString(i.tok.user_id)]
        /\ now > i.at + Lifetime => Verified(i).exc = "credentials_exception"

\* C5, amended: the token verifies, giving its user id, at every time before
\* i.at + lifetime, and is rejected from the first whole second after the
\* second in which i.at + lifetime falls (expiry is compared in whole seconds).
C5_VerifyUntilExpirySecond ==
    \A i \in issued :
        /\ now < i.at + Lifetime =>
              Verified(i) = [exc |-> "", id |-> ToString(i.tok.user_id)]
        /\ Seconds(now) > Seconds(i.at + Lifetime) =>
              Verified(i).exc = "credentials_exception"

C5_Witness ==
    \E i \in issued :
        /\ Seconds(now) > Seconds(i.at + Lifetime)
        /\ i.at % TicksPerSecond # 0
        /\ last.op = "get_current_user"
        /\ last.tok = i.tok
        /\ last.status = 401

\* the store a delete of user id must leave: the user, the user's movies,
\* ratings, comments and replies, the ratings and comments on those movies and
\* the replies to the comments removed are gone, every other row is kept
GoneMovies(d, id) == {m \in d["Movie"] : m.user_id = id}

GoneComments(d, id) ==
    {c \in d["Comment"] :
        c.user_id = id \/ c.movie_id \in {m.id : m \in GoneMovies(d, id)}}

GoneRatings(d, id) ==
    {r \in d["Rating"] :
        r.user_id = id \/ r.movie_id \in {m.id : m \in GoneMovies(d, id)}}

GoneReplies(d, id) ==
    {r \in d["Reply"] :
        r.user_id = id \/ r.comment_id \in {c.id : c \in GoneComments(d, id)}}

WithoutUser(d, id) ==
    [User    |-> {u \in d["User"] : u.id # id},
     Movie   |-> d["Movie"] \ GoneMovies(d, id),
     Rating  |-> d["Rating"] \ GoneRatings(d, id),
     Comment |-> d["Comment"] \ GoneComments(d, id),
     Reply   |-> d["Reply"] \ GoneReplies(d, id)]

\* C6: deleting a user removes the rows the user owns and the rows that depend
\* on them, through rows of other users too, and keeps every other row.
C6_DeleteUserCascades ==
    [][ Serves({"delete_user"}) =>
            /\ last'.status = 204
            /\ db' = WithoutUser(db, last'.id) ]_vars

\* user 1 is gone and with it the one movie, its comment by user 2 and the
\* reply of user 2 to that comment; user 2 is still there
C6_Witness ==
    /\ last.op = "delete_user"
    /\ last.id = 1
    /\ Ids(db, "User") = {2}
    /\ seq["Movie"] = 2 /\ seq["Comment"] = 2 /\ seq["Reply"] = 2
    /\ db["Movie"] = {} /\ db["Comment"] = {} /\ db["Reply"] = {}

\* C7: get_current_user answers 401 on every failure, for a token that is not
\* authentic and for one that verifies but names a user no longer in the
\* store; it never hands an absent user to the route.
C7_AbsentUserUnauthorized ==
    last.op = "get_current_user" =>
        IF \E u \in db["User"] : ActsAs(last.tok, u.id)
        THEN last.status = 200 /\ last.out \in db["User"]
        ELSE last.status = 401

\* C8: a create, update or delete of a movie without an authentic token is
\* answered 401 and leaves the store as it was, whether the movie exists or not.
C8_NoTokenUnauthorized ==
    [][ ( /\ Serves({"create_movie", "update_movie", "delete_movie"})
          /\ ~Authentic(last'.tok) )
        => /\ last'.status = 401
           /\ db' = db /\ seq' = seq ]_vars

C8_Witness ==
    /\ last.op = "delete_movie"
    /\ last.status = 401
    /\ last.tok = Forged(now)
    /\ \E m \in db["Movie"] : m.id = last.id /\ m.user_id = last.tok.user_id

\* the user a creating request acts for
Actor == IF last.op = "create" THEN last.id ELSE last.tok.user_id

\* C9: a row created by create, rate_movie, comment_movie or reply_comment
\* carries the acting user's id as user_id, whatever the body says.
C9_OwnerIsActor ==
    (last.op \in DOMAIN Inserts \ {"create_user"} /\ last.status = 201) =>
        /\ last.out.user_id = Actor
        /\ (last.op # "create" => ActsAs(last.tok, Actor))
        /\ \E r \in db[Inserts[last.op]] : r.id = last.out.id /\ r.user_id = Actor

C9_Witness ==
    /\ last.op = "rate_movie"
    /\ last.status = 201
    /\ "user_id" \in DOMAIN last.body
    /\ last.body.user_id # Actor
    /\ last.out.user_id = Actor

\* C10: a rating for a movie id that has no row is answered 404 "Movie with
\* id:<id> not found" and leaves the store as it was.
C10_RatingMovieNotFound ==
    [][ ( /\ Serves({"rate_movie"})
          /\ Authentic(last'.tok)
          /\ ValidBody("RatingCreate", last'.body)
          /\ last'.body.movie_id \notin Ids(db, "Movie") )
        => /\ last'.status = 404
           /\ last'.out = [detail |-> "Movie with id:"
                                          \o ToString(last'.body.movie_id)
                                          \o " not found"]
           /\ db' = db /\ seq' = seq ]_vars

C10_Witness ==
    /\ last.op = "rate_movie"
    /\ last.status = 404
    /\ last.body.movie_id \notin Ids(db, "Movie")
    /\ db["Movie"] # {}
    /\ db["Rating"] # {}

\* C11: a reply by an authenticated user with a valid body naming an existing
\* comment is answered 201 with the inserted Reply row: owned by the caller,
\* carrying that comment_id and the text sent.
C11_ReplyCreated ==
    [][ \A u \in db["User"] :
          ( /\ Serves({"reply_comment"})
            /\ ActsAs(last'.tok, u.id)
            /\ ValidBody("ReplyCreate", last'.body)
            /\ last'.body.comment_id \in Ids(db, "Comment") )
          => /\ last'.status = 201
             /\ last'.out \in db'["Reply"] \ db["Reply"]
             /\ last'.out.user_id = u.id
             /\ last'.out.comment_id = last'.body.comment_id
             /\ last'.out.reply = last'.body.content ]_vars

(***************************************************************************)
(* CRUDService called directly, one call at a time, without the routes:    *)
(* the calls a handler or a test fixture makes on the data-access class.   *)
(* A string column the search reads is kept as its sequence of characters. *)
(***************************************************************************)
\* rows inserted over a run of direct calls
MaxStoreRows == 4
\* the largest limit a listing is asked for
MaxLimit == 1

Min(a, b) == IF a < b THEN a ELSE b

\* column LIKE pattern: "%" stands for any run of characters, "_" for any one
RECURSIVE Like(_, _)
Like(s, pattern) ==
    IF pattern = <<>> THEN s = <<>>
    ELSE IF Head(pattern) = "%"
    THEN Like(s, Tail(pattern)) \/ (s # <<>> /\ Like(Tail(s), pattern))
    ELSE /\ s # <<>>
         /\ Head(pattern) = "_" \/ Head(pattern) = Head(s)
         /\ Like(Tail(s), Tail(pattern))

\* column.contains(other): column LIKE '%' || other || '%', the wildcard
\* characters of other not escaped
contains(column, other) == Like(column, <<"%">> \o other \o <<"%">>)

\* the orders in which the store may return the rows of a table
RECURSIVE Orders(_)
Orders(rows) ==
    IF rows = {} THEN {<<>>}
    ELSE UNION {{<<r>> \o o : o \in Orders(rows \ {r})} : r \in rows}

\* query(model).filter(model.genre.contains(search)).limit(limit).offset(skip).all()
\* with the rows of the table coming in the order the store chose
get_movie(order, limit, skip, search) ==
    LET matched == SelectSeq(order, LAMBDA r : contains(r.genre, search))
    IN  SubSeq(matched, skip + 1, Min(Len(matched), skip + limit))

\* what a direct call leaves: its return value, or the exception it raised
Outcome(r) ==
    Resp(IF r.exc = "" THEN 200 ELSE 500, r.db, r.seq,
         IF r.exc = "" THEN r.out ELSE [exc |-> r.exc])

UserObjects == {[email |-> e, password |-> "pw"] : e \in Emails}

MovieObjects ==
    { [title |-> "t1", genre |-> <<"a", "b">>, director |-> "d1"],
      [title |-> "t2", genre |-> <<"b">>, director |-> "d1"] }

MovieUpdateObjects == { [title |-> "t3", genre |-> <<"a">>, director |-> "d2"] }

Searches == { <<>>, <<"a">>, <<"_">> }

StoreRowsInserted == RowsInserted < MaxStoreRows

Call_create_user ==
    /\ StoreRowsInserted
    /\ \E data_obj \in UserObjects :
          Request("create_user()", NoToken, 0, data_obj,
                  Outcome(create_user(db, seq, data_obj, "User",
                                      hash_password(data_obj.password), now)))
    /\ UNCHANGED <<now, issued>>

Call_create ==
    /\ StoreRowsInserted
    /\ \E user \in db["User"] :
          \/ \E data_obj \in MovieObjects :
                Request("create()", NoToken, user.id, data_obj,
                        Outcome(create(db, seq, data_obj, "Movie", user, now)))
          \/ \E data_obj \in ReplyRows(db, seq) :
                Request("create()", NoToken, user.id, data_obj,
                        Outcome(create(db, seq, data_obj, "Reply", user, now)))
    /\ UNCHANGED <<now, issued>>

Call_rate_movie ==
    /\ StoreRowsInserted
    /\ \E user \in db["User"], m \in Probe(db, seq, "Movie") :
          LET data_obj == [movie_id |-> m, rating |-> 3]
          IN  Request("rate_movie()", NoToken, user.id, data_obj,
                      Outcome(rate_movie(db, seq, data_obj, "Rating", user, now)))
    /\ UNCHANGED <<now, issued>>

Call_comment_movie ==
    /\ StoreRowsInserted
    /\ \E user \in db["User"], m \in Probe(db, seq, "Movie") :
          LET data_obj == [movie_id |-> m, content |-> "c"]
          IN  Request("comment_movie()", NoToken, user.id, data_obj,
                      Outcome(comment_movie(db, seq, data_obj, "Comment", user, now)))
    /\ UNCHANGED <<now, issued>>

Call_reply_comment ==
    /\ StoreRowsInserted
    /\ \E user \in db["User"], c \in Probe(db, seq, "Comment") :
          LET data_obj == [comment_id |-> c, content |-> "r"]
          IN  Request("reply_comment()", NoToken, user.id, data_obj,
                      Outcome(reply_comment(db, seq, data_obj, "Reply", user, now)))
    /\ UNCHANGED <<now, issued>>

Call_update ==
    /\ \E id \in Probe(db, seq, "Movie"), data_obj \in MovieUpdateObjects :
          Request("update()", NoToken, id, data_obj,
                  Outcome(update(db, seq, id, data_obj, "Movie")))
    /\ UNCHANGED <<now, issued>>

Call_delete ==
    /\ \E model \in Models :
          \E id \in Probe(db, seq, model) :
             Request("delete()", NoToken, id, [model |-> model],
                     Outcome(delete(db, seq, id, model)))
    /\ UNCHANGED <<now, issued>>

Call_get_movie ==
    /\ db["Movie"] # {}
    /\ \E order \in Orders(db["Movie"]), limit \in 0..MaxLimit, skip \in {0, 1},
          search \in Searches :
          Request("get_movie()", NoToken, 0,
                  [limit |-> limit, skip |-> skip, search |-> search],
                  Resp(200, db, seq, get_movie(order, limit, skip, search)))
    /\ UNCHANGED <<now, issued>>

\* time passing between two calls: the clock takes a second reading
StoreTick ==
    /\ last = Idle
    /\ now = 0
    /\ now' = TicksPerSecond
    /\ UNCHANGED <<db, seq, issued, last, reqs>>

NextStore ==
    \/ StoreTick
    \/ Call_create_user
    \/ Call_create
    \/ Call_rate_movie
    \/ Call_comment_movie
    \/ Call_reply_comment
    \/ Call_update
    \/ Call_delete
    \/ Call_get_movie
    \/ Deliver

SpecStore == Init /\ [][NextStore]_vars

\* the call served by the step raised the exception e
Raised(e) == last'.out = [exc |-> e]

\* C12: no two User rows share an email, and create_user for an email that a
\* user already holds fails with the store's integrity error and adds no row.
UniqueEmails ==
    \A u1, u2 \in db["User"] : u1.email = u2.email => u1 = u2

C12_DuplicateEmailRejected ==
    [][ /\ UniqueEmails'
        /\ ( /\ Serves({"create_user()"})
             /\ \E u \in db["User"] : u.email = last'.body.email )
           => /\ Raised("IntegrityError")
              /\ db' = db ]_vars

C12_Witness ==
    /\ last.op = "create_user()"
    /\ last.out = [exc |-> "IntegrityError"]
    /\ \E u \in db["User"] : u.email = last.body.email
    /\ Cardinality(db["User"]) = 2

\* the ways a token fails verification at the present time
BadSignature(tok) == tok.kind = "jwt" /\ tok.key # SECRET_KEY

Malformed(tok) == tok.kind = "garbage"

MissingClaim(tok) == tok.kind = "jwt" /\ tok.user_id = 0

PastExpiry(tok) == tok.kind = "jwt" /\ tok.exp < Seconds(now)

Fails(tok) == BadSignature(tok) \/ Malformed(tok) \/ MissingClaim(tok) \/ PastExpiry(tok)

\* C13: whichever check fails (signature, form, user_id claim, expiry), verify
\* raises the one credentials exception it was given, and get_current_user
\* answers 401 with the one detail; a token no check fails gives its user id.
C13_OneInvalidSignal ==
    /\ last.op = "verify_access_token()" =>
          IF Fails(last.tok)
          THEN last.status = 401 /\ last.out = [exc |-> "credentials_exception"]
          ELSE last.status = 200 /\ last.out = [token_id |-> ToString(last.tok.user_id)]
    /\ (last.op = "get_current_user" /\ Fails(last.tok)) =>
          /\ last.status = 401
          /\ last.out = [detail |-> "Could not validate credentials"]

C13_Witness ==
    /\ last.op = "verify_access_token()"
    /\ MissingClaim(last.tok)
    /\ ~PastExpiry(last.tok)
    /\ last.out = [exc |-> "credentials_exception"]
    /\ \E i \in issued : PastExpiry(i.tok)

\* C18: whether an issued token verifies is decided by the clock and its expiry
\* claim alone, whatever the store holds (the token of a deleted user keeps
\* verifying until it expires), and a token once rejected stays rejected as
\* time goes on.
C18_VerifyIgnoresStore ==
    [][ /\ \A i \in issued' :
              (Verified(i)' = [exc |-> "", id |-> ToString(i.tok.user_id)])
                  <=> ~(i.tok.exp < Seconds(now'))
        /\ \A i \in issued' :
              (Verified(i)'.exc # "") <=> (i.tok.exp < Seconds(now'))
        /\ \A i \in issued \cap issued' :
              Verified(i).exc # "" => Verified(i)'.exc # "" ]_vars

C18_Witness ==
    \E i \in issued :
        /\ i.tok.user_id \notin Ids(db, "User")
        /\ now > i.at
        /\ last.op = "verify_access_token()"
        /\ last.tok = i.tok
        /\ last.out = [token_id |-> ToString(i.tok.user_id)]

\* sub occurs in s as a run of consecutive characters
Substring(sub, s) ==
    \E i \in 0..(Len(s) - Len(sub)) : SubSeq(s, i + 1, i + Len(sub)) = sub

\* C14: get_movie returns rows of the Movie table whose genre contains the
\* search term as a substring, and no more than limit of them.
C14_SearchAndLimit ==
    last.op = "get_movie()" =>
        /\ Len(last.out) <= last.body.limit
        /\ \A k \in 1..Len(last.out) :
              /\ last.out[k] \in db["Movie"]
              /\ Substring(last.body.search, last.out[k].genre)

\* the row r with the fields of data_obj put in place of its own
Updated(r, data_obj) ==
    [c \in DOMAIN r |-> IF c \in DOMAIN data_obj THEN data_obj[c] ELSE r[c]]

\* C17: update puts the fields supplied into the row with the given id and
\* changes nothing else: that row keeps its id, user_id and created_at, every
\* other row of every table is as before, and with no row of that id the
\* store is as before.
C17_UpdateFrame ==
    [][ Serves({"update()"}) =>
          /\ last'.status = 200
          /\ seq' = seq
          /\ \A model \in Models \ {"Movie"} : db'[model] = db[model]
          /\ db'["Movie"] =
                {IF r.id = last'.id THEN Updated(r, last'.body) ELSE r : r \in db["Movie"]}
          /\ \A r \in db["Movie"] :
                \E q \in db'["Movie"] :
                   /\ q.id = r.id /\ q.user_id = r.user_id /\ q.created_at = r.created_at
                   /\ r.id # last'.id => q = r
          /\ last'.id \notin Ids(db, "Movie") => db' = db ]_vars

\* the older of two movies has been updated at a later time: it carries the
\* new fields and its old owner and creation time, the other movie is untouched
C17_Witness ==
    /\ last.op = "update()"
    /\ \E r, q \in db["Movie"] :
          /\ r.id = last.id /\ q.id # last.id
          /\ r.title = last.body.title /\ q.title # last.body.title
          /\ r.created_at < now
          /\ r.user_id # q.user_id

\* C19: in every state reached by creates and deletes, every movie, rating,
\* comment and reply belongs to a user in the store, every rating and comment
\* is on a movie in the store and every reply is to a comment in the store.
C19_ReferentialIntegrity ==
    /\ \A model \in {"Movie", "Rating", "Comment", "Reply"} :
          \A r \in db[model] : r.user_id \in Ids(db, "User")
    /\ \A model \in {"Rating", "Comment"} :
          \A r \in db[model] : r.movie_id \in Ids(db, "Movie")
    /\ \A r \in db["Reply"] : r.comment_id \in Ids(db, "Comment")

\* a movie has been deleted, and its comment and the reply to it with it
C19_Witness ==
    /\ last.op = "delete()"
    /\ last.body.model = "Movie"
    /\ seq["Movie"] = 2 /\ seq["Comment"] = 2 /\ seq["Reply"] = 2
    /\ db["User"] # {}
    /\ db["Movie"] = {} /\ db["Comment"] = {} /\ db["Reply"] = {}

(***************************************************************************)
(* Rating submissions served step by step by two workers, so that the      *)
(* steps of one request interleave with those of another.  A request gets  *)
(* its session from app/database.py get_db, looks for the movie and for a  *)
(* rating the user already gave (get_existing_rating), inserts the rating  *)
(* (rate_movie, with its own commit) and gives the session back.  The      *)
(* users and movies are put in place by direct CRUDService calls.          *)
(***************************************************************************)
\* rows inserted over a run of interleaved requests
MaxRaceRows == 4

\* get_db up to its yield: db = SessionLocal(); yield db
get_db_yield(req) == [req EXCEPT !.session = "open"]

\* a get_db that closes after the yield without try/finally: the close is
\* skipped when the request raised
get_db_close_unless_raised(req) ==
    IF req.pc = "raised" THEN req
    ELSE [req EXCEPT !.session = "closed", !.closes = @ + 1]

\* get_db after its yield: finally: db.close()
get_db_finally(req) == [req EXCEPT !.session = "closed", !.closes = @ + 1]

\* requests that may still insert a row
Pending == {w \in Workers : reqs[w].pc \in {"opened", "checked"}}

\* a request arrives: its user is resolved and its session opened
Submit(w) ==
    /\ reqs[w].pc \in {"idle", "done"}
    /\ RowsInserted + Cardinality(Pending) < MaxRaceRows
    /\ \E user \in db["User"], m \in Probe(db, seq, "Movie") :
          reqs' = [reqs EXCEPT ![w] =
                      get_db_yield([NoRequest EXCEPT
                                      !.pc = "opened", !.user = user,
                                      !.body = [movie_id |-> m, rating |-> 3]])]
    /\ UNCHANGED <<db, seq, now, issued, last>>

\* the route's checks: 404 without the movie, 400 with a rating already there
CheckRating(w) ==
    LET req == reqs[w]
    IN  /\ req.pc = "opened"
        /\ reqs' = [reqs EXCEPT ![w] =
              IF IsNone(get(db, req.body.movie_id, "Movie"))
              THEN [req EXCEPT !.pc = "raised", !.status = 404]
              ELSE IF ~IsNone(get_existing_rating(db, req.body, "Rating", req.user))
              THEN [req EXCEPT !.pc = "raised", !.status = 400]
              ELSE [req EXCEPT !.pc = "checked"]]
        /\ UNCHANGED <<db, seq, now, issued, last>>

\* the insert, committed by rate_movie itself
InsertRating(w) ==
    LET req == reqs[w]
        r   == rate_movie(db, seq, req.body, "Rating", req.user, now)
    IN  /\ req.pc = "checked"
        /\ db' = r.db
        /\ seq' = r.seq
        /\ reqs' = [reqs EXCEPT ![w] =
              IF r.exc = "" THEN [req EXCEPT !.pc = "returned", !.status = 201]
              ELSE [req EXCEPT !.pc = "raised", !.status = 500]]
        /\ UNCHANGED <<now, issued, last>>

\* the request is over, having returned or raised: get_db resumes
CloseSession(w) ==
    /\ reqs[w].pc \in {"returned", "raised"}
    /\ reqs' = [reqs EXCEPT ![w] = [get_db_finally(reqs[w]) EXCEPT !.pc = "done"]]
    /\ UNCHANGED <<db, seq, now, issued, last>>

RaceSetup ==
    /\ RowsInserted + Cardinality(Pending) < MaxRaceRows
    /\ Call_create_user \/ Call_create

\* a movie is deleted, its ratings with it, between two steps of the requests
RemoveMovie ==
    /\ \E id \in Ids(db, "Movie") : db' = delete(db, seq, id, "Movie").db
    /\ UNCHANGED <<seq, now, issued, last, reqs>>

NextRace ==
    \/ RaceSetup
    \/ RemoveMovie
    \/ Deliver
    \/ \E w \in Workers : Submit(w)
    \/ \E w \in Workers : CheckRating(w)
    \/ \E w \in Workers : InsertRating(w)
    \/ \E w \in Workers : CloseSession(w)

SpecRace == Init /\ [][NextRace]_vars

\* a request once begun is carried through: the framework runs the handler to
\* its end and then resumes get_db
SpecRaceLive ==
    /\ SpecRace
    /\ \A w \in Workers :
          /\ WF_vars(CheckRating(w))
          /\ WF_vars(InsertRating(w))
          /\ WF_vars(CloseSession(w))

\* the Rating rows of user u on movie m
RatingsOf(m, u) == {r \in db["Rating"] : r.movie_id = m /\ r.user_id = u}

\* C15: nothing in the store stops a rating for a pair (movie, user) that has
\* a rating already: with its movie and user still there, a request that has
\* passed the check inserts its row whatever ratings were inserted since, so
\* two interleaved submissions both succeed.
C15_InsertAfterCheckSucceeds ==
    [][ \A w \in Workers :
          ( /\ reqs[w].pc = "checked" /\ reqs'[w].pc # "checked"
            /\ reqs[w].body.movie_id \in Ids(db, "Movie")
            /\ reqs[w].user.id \in Ids(db, "User") ) =>
              /\ reqs'[w].pc = "returned" /\ reqs'[w].status = 201
              /\ \E r \in db'["Rating"] \ db["Rating"] :
                    /\ r.movie_id = reqs[w].body.movie_id
                    /\ r.user_id = reqs[w].user.id
                    /\ db'["Rating"] = db["Rating"] \cup {r} ]_vars

\* both submissions of one user for one movie were answered 201 and the pair
\* has two Rating rows
C15_Witness ==
    /\ reqs["w1"].status = 201 /\ reqs["w2"].status = 201
    /\ reqs["w1"].user = reqs["w2"].user
    /\ reqs["w1"].body = reqs["w2"].body
    /\ Cardinality(RatingsOf(reqs["w1"].body.movie_id, reqs["w1"].user.id)) = 2

\* C16: the session of a request is open while the request runs, it is closed,
\* once, when the request is over, returned or raised, and every session
\* opened is closed in the end.
C16_SessionClosedOnce ==
    /\ [](\A w \in Workers :
            /\ reqs[w].pc \in {"opened", "checked", "returned", "raised"} =>
                  reqs[w].session = "open" /\ reqs[w].closes = 0
            /\ reqs[w].pc = "done" =>
                  reqs[w].session = "closed" /\ reqs[w].closes = 1)
    /\ \A w \in Workers :
          (reqs[w].session = "open") ~> (reqs[w].session = "closed")

\* one request answered 201 and one that raised, both with their session closed
C16_Witness ==
    /\ reqs["w1"].pc = "done" /\ reqs["w1"].status = 201
    /\ reqs["w2"].pc = "done" /\ reqs["w2"].status = 400
    /\ \A w \in Workers : reqs[w].session = "closed" /\ reqs[w].closes = 1

====
